---- MODULE Spec2Model ----
(***************************************************************************)
(* Model of the Mesos provisioner actor                                    *)
(* (src/slave/containerizer/mesos/provisioner/provisioner.cpp).            *)
(*                                                                         *)
(* ProvisionerProcess is a libprocess actor: every handler (recover,       *)
(* provision, _provision, __provision, destroy, _destroy) runs to          *)
(* completion on the actor before the next one starts.  The Store and the  *)
(* Backend are external: each call to them returns a future that the       *)
(* environment completes later, successfully or not.  A continuation       *)
(* attached with defer(self(), ...) runs on the actor once its future is   *)
(* ready.  A failed CHECK aborts the whole process.                        *)
(*                                                                         *)
(* The state holds the calls in flight (tasks) and the outcome of the      *)
(* latest handler or completion (outcome); a call that completed is        *)
(* dropped from tasks.                                                     *)
(***************************************************************************)
EXTENDS Naturals, Sequences, FiniteSets

\* ------------------------------------------------------------------------
\* Bounds of the model.

\* Number of calls of the embedding system that start work or change the
\* state.  A destroy of an unregistered container, which returns at once
\* and leaves everything as it is, is not counted.
MaxCalls == 2

\* Largest number of layers a Store returns in ImageInfo.layers.
MaxLayers == 2

\* ------------------------------------------------------------------------
\* Configuration and identifiers.

\* ContainerIDs: "p" is top level, "p.c" is nested under "p".
ContainerIds == {"p", "p.c"}

has_parent(containerId) == containerId = "p.c"

parent(containerId) == IF containerId = "p.c" THEN "p" ELSE "none"

\* The backends created by Backend::create (ProvisionerProcess::backends).
backends == {"copy", "overlay"}

\* A default backend that Provisioner::create did not check.
image_provisioner_backend_Unchecked == "aufs"

\* flags.image_provisioner_backend; Provisioner::create checks that it is
\* one of the backends.
image_provisioner_backend == "copy"

\* A backend directory name that a disk may hold but that is not configured.
UnrecognizedBackend == "aufs"

\* Image::Type values.
ImageTypes == {"DOCKER", "APPC"}

\* The sets of stores Store::create may return (flags.image_providers).
StoreConfigs == {{"DOCKER"}, {"APPC"}}

VARIABLES
  infos,                    \* hashmap<ContainerID, Owned<Info>>
  disk,                     \* the provisioner directory: container -> backend -> rootfs ids
  stores,                   \* the image types that have a Store
  remove_container_errors,  \* metrics.remove_container_errors
  aborted,                  \* a CHECK failed: the process is gone
  nextRootfsId,             \* number of rootfs ids minted so far
  calls,                    \* number of counted calls the embedding system made
  tasks,                    \* the calls in flight, by task id
  outcome,                  \* what the latest handler or completion reported
  composed,                 \* the tree Backend.provision left at 'rootfs'
  rootfs,                   \* the tree at 'rootfs' while __provision works on it
  fts,                      \* the nodes the fts walk has still to return
  whiteout,                 \* vector<string> whiteout
  whiteoutOpaque,           \* vector<string> whiteoutOpaque
  turn,                     \* position of the foreach loop that is running
  pc                        \* where __provision is, or how it ended

\* The state of one run of the whiteout handling of __provision.
resolverVars == <<composed, rootfs, fts, whiteout, whiteoutOpaque, turn, pc>>

vars == <<infos, disk, stores, remove_container_errors, aborted, nextRootfsId,
          calls, tasks, outcome, resolverVars>>

\* ------------------------------------------------------------------------
\* hashmap helpers.

\* An Info without rootfses (new Info()).
EmptyInfo == [b \in {} |-> {}]

\* hashmap::put
put(m, k, v) == [x \in (DOMAIN m) \cup {k} |-> IF x = k THEN v ELSE m[x]]

\* hashmap::erase
erase(m, k) == [x \in (DOMAIN m) \ {k} |-> m[x]]

\* The (backend, rootfsId) pairs of an Info.
Pairs(info) ==
  {pr \in (DOMAIN info) \X (UNION {info[x] : x \in DOMAIN info}) : pr[2] \in info[pr[1]]}

\* The id of the next task: the smallest one not in use.
NewId(T) ==
  CHOOSE n \in 1..(Cardinality(DOMAIN T) + 1) :
    n \notin DOMAIN T /\ \A m \in 1..(n - 1) : m \in DOMAIN T

\* ------------------------------------------------------------------------
\* destroy.
\*
\* A destroy task:
\*   by     : "caller" (the embedding system), "recover" (recover call
\*            'rec' collects it) or "nobody" (that recover already failed)
\*   stale  : the container was put into infos again since (history)
\*   futures: the Backend.destroy calls, each "pending", "ok" or "failed"
\*   state  : "collect" while collect(futures) is pending, "failed" once it
\*            failed and some Backend.destroy are still running

\* A destroy without the CHECK.
DestroyAborts_Never(inf, containerId) == FALSE

\* The CHECK of destroy: some registered entry names containerId as parent.
DestroyAborts(inf, containerId) ==
  /\ containerId \in DOMAIN inf
  /\ \E entry \in DOMAIN inf : has_parent(entry) /\ parent(entry) = containerId

\* A destroy that leaves the container registered while it cleans up.
InfosAfterDestroy_Keeps(inf, containerId) == inf

\* infos after the handler: the container is unregistered before any cleanup.
InfosAfterDestroy(inf, containerId) ==
  IF containerId \in DOMAIN inf /\ ~DestroyAborts(inf, containerId)
    THEN erase(inf, containerId)
    ELSE inf

\* A destroy that cleans up under the default backend only.
DestroyFutures_DefaultBackendOnly(info, before) ==
  [pr \in {x \in Pairs(info) : x[1] = image_provisioner_backend} |-> "pending"]

\* The Backend.destroy futures the handler starts.  'before' is the set of
\* backends the loop over info->rootfses visits before it meets an
\* unconfigured one (hashmap iteration order); it matters only then.
DestroyFutures(info, before) ==
  IF (DOMAIN info) \subseteq backends
    THEN [pr \in Pairs(info) |-> "pending"]
    ELSE [pr \in {x \in Pairs(info) : x[1] \in before} |-> "pending"]

\* A destroy that reports true for a container it does not know.
DestroyValue_TrueForUnknown(inf, containerId) ==
  IF containerId \notin DOMAIN inf THEN "true"
  ELSE IF DestroyAborts(inf, containerId) THEN "aborted"
  ELSE IF (DOMAIN inf[containerId]) \subseteq backends THEN "pending"
  ELSE "failed"

\* What the handler returns at once: false for an unregistered container,
\* a Failure for an unconfigured backend, nothing when the CHECK fails;
\* otherwise the future stays pending.
DestroyValue(inf, containerId) ==
  IF containerId \notin DOMAIN inf THEN "false"
  ELSE IF DestroyAborts(inf, containerId) THEN "aborted"
  ELSE IF (DOMAIN inf[containerId]) \subseteq backends THEN "pending"
  ELSE "failed"

\* The task of a destroy call that found its container.
DestroyTask(inf, containerId, by, rec, before) ==
  [op |-> "destroy", containerId |-> containerId, by |-> by, rec |-> rec,
   stale |-> FALSE,
   futures |-> DestroyFutures(inf[containerId], before),
   state |-> IF DestroyValue(inf, containerId) = "pending" THEN "collect" ELSE "failed"]

\* The handler leaves a task behind when it started any work.
DestroyLeavesTask(inf, containerId, before) ==
  \/ DestroyValue(inf, containerId) = "pending"
  \/ /\ DestroyValue(inf, containerId) = "failed"
     /\ DOMAIN DestroyFutures(inf[containerId], before) # {}

\* tasks after a destroy handler.
TasksAfterDestroy(T, inf, containerId, by, rec, before) ==
  IF DestroyLeavesTask(inf, containerId, before)
    THEN put(T, NewId(T), DestroyTask(inf, containerId, by, rec, before))
    ELSE T

\* What a destroy handler or completion reports.
DestroyOutcome(containerId, by, value) ==
  [op |-> "destroy", containerId |-> containerId, by |-> by, value |-> value]

\* The recover tasks learn that a call of the embedding system changed the
\* entry of containerId (history).
Touch(T, inf, containerId) ==
  [j \in DOMAIN T |->
     IF T[j].op = "recover" /\ InfosAfterDestroy(inf, containerId) # inf
       THEN [T[j] EXCEPT !.touched = @ \cup {containerId}]
       ELSE T[j]]

\* Provisioner::destroy dispatched and ProvisionerProcess::destroy run.
destroy(containerId) ==
  /\ ~aborted
  /\ containerId \in DOMAIN infos => calls < MaxCalls
  /\ calls' = IF containerId \in DOMAIN infos THEN calls + 1 ELSE calls
  /\ \E before \in SUBSET backends :
       tasks' = TasksAfterDestroy(Touch(tasks, infos, containerId), infos,
                                  containerId, "caller", 0, before)
  /\ infos' = InfosAfterDestroy(infos, containerId)
  /\ aborted' = DestroyAborts(infos, containerId)
  /\ outcome' = DestroyOutcome(containerId, "caller", DestroyValue(infos, containerId))
  /\ UNCHANGED <<resolverVars, disk, stores, remove_container_errors, nextRootfsId>>

\* The disk after a Backend removed one rootfs directory.
RemoveRootfs(d, containerId, backend, rootfsId) ==
  IF containerId \in DOMAIN d /\ backend \in DOMAIN d[containerId]
    THEN [d EXCEPT ![containerId][backend] = @ \ {rootfsId}]
    ELSE d

\* The recover call that collects destroy task t learns its result.
Notify(T, t, status) ==
  IF t.by = "recover"
    THEN [T EXCEPT ![t.rec].cleanups[t.containerId] = status]
    ELSE T

\* A destroy task is over when its future is set and no Backend.destroy runs.
DestroyOver(t) ==
  t.state = "failed" /\ \A pr \in DOMAIN t.futures : t.futures[pr] # "pending"

\* One Backend.destroy future of destroy task i completes.  collect(futures)
\* fails as soon as one of them fails; the others keep running.
BackendDestroy(i, pr, ok) ==
  /\ ~aborted
  /\ tasks[i].op = "destroy"
  /\ pr \in DOMAIN tasks[i].futures
  /\ tasks[i].futures[pr] = "pending"
  /\ LET t == [tasks[i] EXCEPT
                 !.futures[pr] = IF ok THEN "ok" ELSE "failed",
                 !.state = IF ok THEN @ ELSE "failed"]
         fails == ~ok /\ tasks[i].state = "collect"
         T == IF fails THEN Notify(tasks, tasks[i], "failed") ELSE tasks
     IN  /\ tasks' = IF DestroyOver(t) THEN erase(T, i) ELSE put(T, i, t)
         /\ outcome' = IF fails
                         THEN DestroyOutcome(t.containerId, t.by, "failed")
                         ELSE outcome
  /\ disk' = IF ok THEN RemoveRootfs(disk, tasks[i].containerId, pr[1], pr[2])
                   ELSE disk
  /\ UNCHANGED <<resolverVars, infos, stores, remove_container_errors, aborted, nextRootfsId,
                 calls>>

\* A counter that misses the failed removals.
CountRmdir_Never(count, rmdirOk) == count

\* The error counter after os::rmdir(containerDir).
CountRmdir(count, rmdirOk) == IF rmdirOk THEN count ELSE count + 1

\* ProvisionerProcess::_destroy, deferred on collect(futures): it runs once
\* every Backend.destroy succeeded and returns true whatever rmdir says.
_destroy(i, rmdirOk) ==
  /\ ~aborted
  /\ tasks[i].op = "destroy"
  /\ tasks[i].state = "collect"
  /\ \A pr \in DOMAIN tasks[i].futures : tasks[i].futures[pr] = "ok"
  /\ disk' = IF rmdirOk THEN erase(disk, tasks[i].containerId) ELSE disk
  /\ remove_container_errors' = CountRmdir(remove_container_errors, rmdirOk)
  /\ tasks' = erase(Notify(tasks, tasks[i], "true"), i)
  /\ outcome' = DestroyOutcome(tasks[i].containerId, tasks[i].by, "true")
  /\ UNCHANGED <<resolverVars, infos, stores, aborted, nextRootfsId, calls>>

\* ------------------------------------------------------------------------
\* provision.
\*
\* A provision task:
\*   state   : "get" (Store.get pending), "backend" (Backend.provision
\*             pending) or "composed" (Backend.provision done, __provision
\*             deferred)
\*   layers  : imageInfo.layers.size()
\*   rootfsId: the id minted by _provision, 0 before

\* What a provision handler or completion reports.  stage is the last step
\* the call reached; resolver says whether __provision looked for whiteouts.
ProvisionOutcome(containerId, type, value, stage, layers, rootfsId, resolver) ==
  [op |-> "provision", containerId |-> containerId, type |-> type,
   value |-> value, stage |-> stage, layers |-> layers, rootfsId |-> rootfsId,
   resolver |-> resolver]

\* A provisioner that takes every image type.
HasStore_Any(st, type) == TRUE

\* stores.contains(image.type())
HasStore(st, type) == type \in st

\* ProvisionerProcess::provision: a Failure without a Store for the image
\* type, else Store.get is called.
provision(containerId, type) ==
  /\ ~aborted
  /\ calls < MaxCalls
  /\ calls' = calls + 1
  /\ tasks' = IF HasStore(stores, type)
                THEN put(tasks, NewId(tasks),
                         [op |-> "provision", containerId |-> containerId,
                          type |-> type, state |-> "get", layers |-> 0,
                          rootfsId |-> 0])
                ELSE tasks
  /\ outcome' = ProvisionOutcome(containerId, type,
                  IF HasStore(stores, type) THEN "pending" ELSE "failed",
                  "provision", 0, 0, FALSE)
  /\ UNCHANGED <<resolverVars, infos, disk, stores, remove_container_errors, aborted,
                 nextRootfsId>>

\* Store.get fails: the chained _provision never runs.
StoreGetFails(i) ==
  /\ ~aborted
  /\ tasks[i].op = "provision"
  /\ tasks[i].state = "get"
  /\ tasks' = erase(tasks, i)
  /\ outcome' = ProvisionOutcome(tasks[i].containerId, tasks[i].type, "failed",
                                 "get", 0, 0, FALSE)
  /\ UNCHANGED <<resolverVars, infos, disk, stores, remove_container_errors, aborted,
                 nextRootfsId, calls>>

\* The destroy tasks of the containers 'putIds' learn that their container
\* was put into infos again (history).
Stale(T, putIds) ==
  [j \in DOMAIN T |->
     IF T[j].op = "destroy" /\ T[j].containerId \in putIds
       THEN [T[j] EXCEPT !.stale = TRUE]
       ELSE T[j]]

\* The recover tasks learn that _provision changed the entry of containerId
\* (history).
Touched(T, containerId) ==
  [j \in DOMAIN T |->
     IF T[j].op = "recover"
       THEN [T[j] EXCEPT !.touched = @ \cup {containerId}]
       ELSE T[j]]

\* infos[containerId]->rootfses[backend].insert(rootfsId), with the Info
\* created when the container has none.
Register(inf, containerId, backend, rootfsId) ==
  LET info == IF containerId \in DOMAIN inf THEN inf[containerId] ELSE EmptyInfo
      ids  == IF backend \in DOMAIN info THEN info[backend] ELSE {}
  IN  put(inf, containerId, put(info, backend, ids \cup {rootfsId}))

\* ProvisionerProcess::_provision, deferred on Store.get, which returned
\* an ImageInfo of n layers: the rootfs id is minted and registered, then
\* Backend.provision is called.
_provision(i, n) ==
  /\ ~aborted
  /\ tasks[i].op = "provision"
  /\ tasks[i].state = "get"
  /\ nextRootfsId' = nextRootfsId + 1
  /\ infos' = Register(infos, tasks[i].containerId, image_provisioner_backend,
                       nextRootfsId')
  /\ tasks' = [Stale(Touched(tasks, tasks[i].containerId), {tasks[i].containerId})
                EXCEPT ![i].state = "backend", ![i].layers = n,
                       ![i].rootfsId = nextRootfsId']
  /\ outcome' = ProvisionOutcome(tasks[i].containerId, tasks[i].type, "pending",
                                 "_provision", n, nextRootfsId', FALSE)
  /\ UNCHANGED <<resolverVars, disk, stores, remove_container_errors, aborted, calls>>

\* The disk after a Backend created one rootfs directory.
AddRootfs(d, containerId, backend, rootfsId) ==
  LET dir == IF containerId \in DOMAIN d THEN d[containerId] ELSE EmptyInfo
      ids == IF backend \in DOMAIN dir THEN dir[backend] ELSE {}
  IN  put(d, containerId, put(dir, backend, ids \cup {rootfsId}))

\* Backend.provision of provision task i completes.  A success leaves the
\* rootfs directory on disk; a failure may or may not leave it.
BackendProvision(i, ok, leaves) ==
  /\ ~aborted
  /\ tasks[i].op = "provision"
  /\ tasks[i].state = "backend"
  /\ ok => leaves
  /\ tasks' = IF ok THEN [tasks EXCEPT ![i].state = "composed"] ELSE erase(tasks, i)
  /\ outcome' = IF ok THEN outcome
                ELSE ProvisionOutcome(tasks[i].containerId, tasks[i].type, "failed",
                       "backend", tasks[i].layers, tasks[i].rootfsId, FALSE)
  /\ disk' = IF leaves
               THEN AddRootfs(disk, tasks[i].containerId,
                              image_provisioner_backend, tasks[i].rootfsId)
               ELSE disk
  /\ UNCHANGED <<resolverVars, infos, stores, remove_container_errors, aborted, nextRootfsId,
                 calls>>

\* The test of __provision that skips the whiteout handling.
SkipsResolver(layers, type) == layers = 1 \/ type # "DOCKER"

\* ProvisionerProcess::__provision, deferred on Backend.provision.  ioOk
\* says whether every fts/rm/rmdir call of the whiteout handling succeeds.
__provision(i, ioOk) ==
  /\ ~aborted
  /\ tasks[i].op = "provision"
  /\ tasks[i].state = "composed"
  /\ tasks' = erase(tasks, i)
  /\ outcome' = ProvisionOutcome(tasks[i].containerId, tasks[i].type,
                  IF SkipsResolver(tasks[i].layers, tasks[i].type) \/ ioOk
                    THEN "ok" ELSE "failed",
                  "__provision", tasks[i].layers, tasks[i].rootfsId,
                  ~SkipsResolver(tasks[i].layers, tasks[i].type))
  /\ UNCHANGED <<resolverVars, infos, disk, stores, remove_container_errors, aborted,
                 nextRootfsId, calls>>

\* ------------------------------------------------------------------------
\* recover.
\*
\* A recover task:
\*   known        : knownContainerIds
\*   listed       : what the scan read from disk
\*   cleanups     : per container it called destroy for: "pending", "true"
\*                  or "failed"
\*   storeRecover : per Store: "pending", "ok" or "failed"
\*   touched      : the containers whose entry a destroy or provision call of
\*                  the embedding system changed since the scan (history)

\* A scan that takes every backend directory it finds.
Recognized_All(d) == DOMAIN d

\* The on-disk containers whose backend directories are all configured.
Recognized(d) == {c \in DOMAIN d : (DOMAIN d[c]) \subseteq backends}

\* A scan that keeps the Info a container already has.
ScanPut_KeepsOld(inf, d, scanned) ==
  [c \in (DOMAIN inf) \cup scanned |-> IF c \in DOMAIN inf THEN inf[c] ELSE d[c]]

\* A scan that forgets the containers it does not find on disk.
ScanPut_DropsOthers(inf, d, scanned) == [c \in scanned |-> d[c]]

\* infos after the scan put the Info read from disk for every container
\* of 'scanned'.
ScanPut(inf, d, scanned) ==
  [c \in (DOMAIN inf) \cup scanned |-> IF c \in scanned THEN d[c] ELSE inf[c]]

\* All orders in which a hashset of containers can be iterated.
Orders(S) ==
  {o \in [1..Cardinality(S) -> S] : \A a, b \in 1..Cardinality(S) : a # b => o[a] # o[b]}

\* The containers recover marks for cleanup.
Unknown(d, knownContainerIds) == (DOMAIN d) \ knownContainerIds

\* The loop over unknownContainerIds: destroy is called synchronously for
\* order[k], order[k+1], ...; a failed CHECK ends everything.  'called' is
\* the set of containers destroy was called for.
RECURSIVE Cleanups(_, _, _, _, _, _)
Cleanups(inf, T, order, k, rec, called) ==
  IF k > Len(order)
    THEN [infos |-> inf, tasks |-> T, aborted |-> FALSE, called |-> called]
    ELSE IF DestroyAborts(inf, order[k])
      THEN [infos |-> inf, tasks |-> T, aborted |-> TRUE,
            called |-> called \cup {order[k]}]
      ELSE Cleanups(InfosAfterDestroy(inf, order[k]),
                    TasksAfterDestroy(T, inf, order[k], "recover", rec, backends),
                    order, k + 1, rec, called \cup {order[k]})

\* What a recover handler or completion reports.
\* 'called' is the set of containers the handler called destroy for.
RecoverOutcome(value, called) ==
  [op |-> "recover", value |-> value, called |-> called]

\* A recover that failed before it called any destroy or Store.recover.
RecoverFailed == RecoverOutcome("failed", {})

\* The embedding system does not call recover while a recover is running.
NoRecoverRunning == \A j \in DOMAIN tasks : tasks[j].op # "recover"

\* listContainers fails: nothing is touched.
RecoverListFails(knownContainerIds) ==
  /\ ~aborted
  /\ NoRecoverRunning
  /\ calls < MaxCalls
  /\ calls' = calls + 1
  /\ outcome' = RecoverFailed
  /\ UNCHANGED <<resolverVars, infos, disk, stores, remove_container_errors, aborted,
                 nextRootfsId, tasks>>

\* The scan fails at container f, by an I/O error of listContainerRootfses
\* or by an unconfigured backend directory, after it registered 'done'.
RecoverScanFails(knownContainerIds, f, done) ==
  /\ ~aborted
  /\ NoRecoverRunning
  /\ calls < MaxCalls
  /\ f \in DOMAIN disk
  /\ done \subseteq Recognized(disk) \ {f}
  /\ calls' = calls + 1
  /\ infos' = ScanPut(infos, disk, done)
  /\ tasks' = Stale(tasks, done)
  /\ outcome' = RecoverFailed
  /\ UNCHANGED <<resolverVars, disk, stores, remove_container_errors, aborted, nextRootfsId>>

\* ProvisionerProcess::recover when the scan succeeds: every on-disk
\* container is registered, the unknown ones are destroyed in the order
\* 'order', and every Store starts to recover.
recover(knownContainerIds, order) ==
  /\ ~aborted
  /\ NoRecoverRunning
  /\ calls < MaxCalls
  /\ Recognized(disk) = DOMAIN disk
  /\ order \in Orders(Unknown(disk, knownContainerIds))
  /\ calls' = calls + 1
  /\ LET rec == NewId(tasks)
         task == [op |-> "recover", known |-> knownContainerIds, listed |-> disk,
                  cleanups |-> [c \in Unknown(disk, knownContainerIds) |-> "pending"],
                  storeRecover |-> [s \in stores |-> "pending"], touched |-> {}]
         r == Cleanups(ScanPut(infos, disk, DOMAIN disk),
                       put(Stale(tasks, DOMAIN disk), rec, task),
                       order, 1, rec, {})
     IN  /\ infos' = r.infos
         /\ tasks' = r.tasks
         /\ aborted' = r.aborted
         /\ outcome' = RecoverOutcome(IF r.aborted THEN "aborted" ELSE "pending",
                                      r.called)
  /\ UNCHANGED <<resolverVars, disk, stores, remove_container_errors, nextRootfsId>>

\* Store.recover of one Store completes.
StoreRecover(i, s, ok) ==
  /\ ~aborted
  /\ tasks[i].op = "recover"
  /\ s \in DOMAIN tasks[i].storeRecover
  /\ tasks[i].storeRecover[s] = "pending"
  /\ tasks' = [tasks EXCEPT ![i].storeRecover[s] = IF ok THEN "ok" ELSE "failed"]
  /\ UNCHANGED <<resolverVars, infos, disk, stores, remove_container_errors, aborted,
                 nextRootfsId, calls, outcome>>

\* Some future that recover task t collects has failed.
CollectFailed(t) ==
  \/ \E c \in DOMAIN t.cleanups : t.cleanups[c] = "failed"
  \/ \E s \in DOMAIN t.storeRecover : t.storeRecover[s] = "failed"

\* A collect that does not wait for the Stores.
CollectReady_IgnoresStores(t) ==
  \A c \in DOMAIN t.cleanups : t.cleanups[c] = "true"

\* Every future that recover task t collects is ready.
CollectReady(t) ==
  /\ \A c \in DOMAIN t.cleanups : t.cleanups[c] = "true"
  /\ \A s \in DOMAIN t.storeRecover : t.storeRecover[s] = "ok"

\* The destroy tasks of recover task i lose their collector.
Detach(T, i) ==
  [j \in DOMAIN T |->
     IF T[j].op = "destroy" /\ T[j].by = "recover" /\ T[j].rec = i
       THEN [T[j] EXCEPT !.by = "nobody", !.rec = 0]
       ELSE T[j]]

\* collect(cleanup, recover) of recover task i fails, as soon as one of its
\* futures failed, or becomes ready, once all of them are.
RecoverCollect(i) ==
  /\ ~aborted
  /\ tasks[i].op = "recover"
  /\ CollectFailed(tasks[i]) \/ CollectReady(tasks[i])
  /\ tasks' = erase(Detach(tasks, i), i)
  /\ outcome' = RecoverOutcome(IF CollectFailed(tasks[i]) THEN "failed" ELSE "ok",
                               DOMAIN tasks[i].cleanups)
  /\ UNCHANGED <<resolverVars, infos, disk, stores, remove_container_errors, aborted,
                 nextRootfsId, calls>>

\* ------------------------------------------------------------------------
\* The whiteout handling of __provision, step by step.
\*
\* A file name is a sequence of pieces, so that a prefix can be tested and
\* cut off: "a" is <<"a">>, ".wh.a" is <<".wh.", "a">> and ".wh..wh..opq" is
\* <<".wh.", ".wh.", ".opq">>.  A path is the sequence of the names below
\* 'rootfs'; <<>> is 'rootfs' itself.  A tree maps each path in it to "dir"
\* or "file".

\* spec::WHITEOUT_PREFIX
WHITEOUT_PREFIX == <<".wh.">>

\* spec::WHITEOUT_OPAQUE_PREFIX
WHITEOUT_OPAQUE_PREFIX == <<".wh.", ".wh.", ".opq">>

\* strings::startsWith
startsWith(name, prefix) ==
  Len(name) >= Len(prefix) /\ SubSeq(name, 1, Len(prefix)) = prefix

\* string::substr(pos)
substr(name, pos) == SubSeq(name, pos + 1, Len(name))

\* Path::dirname
dirname(path) == SubSeq(path, 1, Len(path) - 1)

\* Path::basename
basename(path) == path[Len(path)]

\* path::join(directory, name)
join(directory, name) == Append(directory, name)

\* path lies below directory.
Below(path, directory) ==
  Len(path) > Len(directory) /\ SubSeq(path, 1, Len(directory)) = directory

\* The entries of a directory.
Children(tree, directory) ==
  {path \in DOMAIN tree : Len(path) = Len(directory) + 1 /\ dirname(path) = directory}

\* A tree without the paths of 'gone'.
Without(tree, gone) == [path \in (DOMAIN tree) \ gone |-> tree[path]]

\* os::rm(path)
rm(tree, path) == Without(tree, {path})

\* os::rmdir(path, true, false): the contents go, the directory stays.
rmdirContents(tree, path) ==
  Without(tree, {q \in DOMAIN tree : Below(q, path)})

\* os::rmdir(path): recursive, the directory goes too.
rmdir(tree, path) ==
  Without(tree, {q \in DOMAIN tree : q = path \/ Below(q, path)})

\* A walk that takes a marker for the path it hides.
WhiteoutPath_KeepsPrefix(path) == path

\* The path a whiteout file hides: its name without the prefix, in the same
\* directory.
WhiteoutPath(path) ==
  join(dirname(path), substr(basename(path), Len(WHITEOUT_PREFIX)))

\* The node is a regular file whose name starts with the whiteout prefix.
IsWhiteoutFile(tree, path) ==
  /\ path # <<>>
  /\ tree[path] = "file"
  /\ startsWith(basename(path), WHITEOUT_PREFIX)

\* Where __provision goes on after the walk or after a loop ran out.
AfterWalk(opaque, hidden) ==
  IF Len(opaque) > 0 THEN "opaque"
  ELSE IF Len(hidden) > 0 THEN "whiteout"
  ELSE "ok"

\* fts_read returns the next node, in pre-order; the entries of a directory
\* come in any order.  A whiteout file is noted and removed at once.  Not ok:
\* fts_open, fts_read or os::rm fails.
fts_read(order, ok) ==
  /\ pc = "walk"
  /\ fts # <<>>
  /\ LET node == Head(fts)
     IN  IF ~ok
           THEN /\ pc' = "io"
                /\ UNCHANGED <<rootfs, fts, whiteout, whiteoutOpaque>>
         ELSE IF rootfs[node] = "dir"
           THEN /\ order \in Orders(Children(rootfs, node))
                /\ fts' = order \o Tail(fts)
                /\ UNCHANGED <<rootfs, whiteout, whiteoutOpaque, pc>>
         ELSE IF IsWhiteoutFile(rootfs, node)
           THEN /\ IF basename(node) = WHITEOUT_OPAQUE_PREFIX
                     THEN /\ whiteoutOpaque' = Append(whiteoutOpaque, dirname(node))
                          /\ whiteout' = whiteout
                     ELSE /\ whiteout' = Append(whiteout, WhiteoutPath(node))
                          /\ whiteoutOpaque' = whiteoutOpaque
                /\ rootfs' = rm(rootfs, node)
                /\ fts' = Tail(fts)
                /\ pc' = pc
         ELSE /\ fts' = Tail(fts)
              /\ UNCHANGED <<rootfs, whiteout, whiteoutOpaque, pc>>
  /\ UNCHANGED <<composed, turn>>

\* The walk is over: the errno test and fts_close.
fts_close(ok) ==
  /\ pc = "walk"
  /\ fts = <<>>
  /\ pc' = IF ok THEN AfterWalk(whiteoutOpaque, whiteout) ELSE "io"
  /\ turn' = 1
  /\ UNCHANGED <<composed, rootfs, fts, whiteout, whiteoutOpaque>>

\* One turn of the loop over whiteoutOpaque.  When an earlier turn removed
\* the directory, os::rmdir either reports that it is missing or does
\* nothing (missingFails), depending on the os::rmdir the build has.
ClearOpaque(ok, missingFails) ==
  /\ pc = "opaque"
  /\ LET path == whiteoutOpaque[turn]
         last == turn = Len(whiteoutOpaque)
         on   == IF last THEN AfterWalk(<<>>, whiteout) ELSE "opaque"
     IN  IF path \notin DOMAIN rootfs
           THEN /\ pc' = IF missingFails THEN "missing" ELSE on
                /\ rootfs' = rootfs
           ELSE /\ pc' = IF ok THEN on ELSE "io"
                /\ rootfs' = IF ok THEN rmdirContents(rootfs, path) ELSE rootfs
  /\ turn' = IF pc' = "opaque" THEN turn + 1 ELSE 1
  /\ UNCHANGED <<composed, fts, whiteout, whiteoutOpaque>>

\* One turn of the loop over whiteout: the path is removed if it is still
\* there, as a directory or as a file.
RemoveWhiteout(ok) ==
  /\ pc = "whiteout"
  /\ LET path == whiteout[turn]
         on   == IF turn = Len(whiteout) THEN "ok" ELSE "whiteout"
     IN  IF path \notin DOMAIN rootfs
           THEN /\ pc' = on
                /\ rootfs' = rootfs
           ELSE /\ pc' = IF ok THEN on ELSE "io"
                /\ rootfs' = IF ~ok THEN rootfs
                             ELSE IF rootfs[path] = "dir" THEN rmdir(rootfs, path)
                             ELSE rm(rootfs, path)
  /\ turn' = IF pc' = "whiteout" THEN turn + 1 ELSE 1
  /\ UNCHANGED <<composed, fts, whiteout, whiteoutOpaque>>

\* The entries a composed tree may hold: files a, d/x and d/e/y, directories
\* d and d/e, whiteout files for a, d and d/x, opaque whiteout files in d and
\* in d/e.
Entries ==
  { << << <<"a">> >>, "file" >>,
    << << <<".wh.", "a">> >>, "file" >>,
    << << <<"d">> >>, "dir" >>,
    << << <<".wh.", "d">> >>, "file" >>,
    << << <<"d">>, WHITEOUT_OPAQUE_PREFIX >>, "file" >>,
    << << <<"d">>, <<"x">> >>, "file" >>,
    << << <<"d">>, <<".wh.", "x">> >>, "file" >>,
    << << <<"d">>, <<"e">> >>, "dir" >>,
    << << <<"d">>, <<"e">>, WHITEOUT_OPAQUE_PREFIX >>, "file" >>,
    << << <<"d">>, <<"e">>, <<"y">> >>, "file" >> }

\* Every entry but a top-level one lies in a directory of the set.
Closed(S) ==
  \A e \in S : Len(e[1]) > 1 => <<dirname(e[1]), "dir">> \in S

\* The tree made of a set of entries.
TreeOf(S) ==
  [path \in {<<>>} \cup {e[1] : e \in S} |->
     IF path = <<>> THEN "dir" ELSE (CHOOSE e \in S : e[1] = path)[2]]

\* The trees Backend.provision may leave.
Trees == {TreeOf(S) : S \in {T \in SUBSET Entries : Closed(T)}}

\* No __provision is at work on a tree.
ResolverIdle ==
  /\ composed = TreeOf({})
  /\ rootfs = TreeOf({})
  /\ fts = <<>>
  /\ whiteout = <<>>
  /\ whiteoutOpaque = <<>>
  /\ turn = 0
  /\ pc = "idle"

\* __provision starts on the tree of a docker image of several layers, past
\* the test that skips the other images.
InitResolver ==
  /\ infos = [c \in {} |-> EmptyInfo]
  /\ disk = [c \in {} |-> EmptyInfo]
  /\ stores = {"DOCKER"}
  /\ remove_container_errors = 0
  /\ aborted = FALSE
  /\ nextRootfsId = 0
  /\ calls = 0
  /\ tasks = [i \in {} |-> [op |-> "none"]]
  /\ outcome = [op |-> "none"]
  /\ composed \in Trees
  /\ rootfs = composed
  /\ fts = << <<>> >>
  /\ whiteout = <<>>
  /\ whiteoutOpaque = <<>>
  /\ turn = 0
  /\ pc = "walk"

ProvisionerVars ==
  <<infos, disk, stores, remove_container_errors, aborted, nextRootfsId, calls,
    tasks, outcome>>

NextResolver ==
  \/ \E ok \in BOOLEAN :
       /\ fts # <<>>
       /\ \E order \in Orders(Children(rootfs, Head(fts))) : fts_read(order, ok)
       /\ UNCHANGED ProvisionerVars
  \/ \E ok \in BOOLEAN : fts_close(ok) /\ UNCHANGED ProvisionerVars
  \/ \E ok, missingFails \in BOOLEAN :
       ClearOpaque(ok, missingFails) /\ UNCHANGED ProvisionerVars
  \/ \E ok \in BOOLEAN : RemoveWhiteout(ok) /\ UNCHANGED ProvisionerVars

SpecResolver == InitResolver /\ [][NextResolver]_vars

\* ------------------------------------------------------------------------
\* The system.

\* Directory trees an agent may find in its provisioner directory at start.
DiskLayouts ==
  { [c \in {} |-> EmptyInfo],
    [c \in {"p", "p.c"} |-> [b \in {"copy"} |-> {0}]],
    [c \in {"p"} |-> [b \in {"copy", "overlay"} |-> {0}]],
    [c \in {"p", "p.c"} |-> IF c = "p" THEN [b \in {"copy"} |-> {0}]
                                       ELSE [b \in {UnrecognizedBackend} |-> {0}]] }

Init ==
  /\ infos = [c \in {} |-> EmptyInfo]
  /\ disk \in DiskLayouts
  /\ stores \in StoreConfigs
  /\ remove_container_errors = 0
  /\ aborted = FALSE
  /\ nextRootfsId = 0
  /\ calls = 0
  /\ tasks = [i \in {} |-> [op |-> "none"]]
  /\ outcome = [op |-> "none"]
  /\ ResolverIdle

\* knownContainerIds is drawn from the containers on disk: recover looks a
\* container up in it only while it scans that container's directory.
Next ==
  \/ \E c \in ContainerIds : destroy(c)
  \/ \E i \in DOMAIN tasks : \E pr \in backends \X (0..nextRootfsId) :
       \E ok \in BOOLEAN : BackendDestroy(i, pr, ok)
  \/ \E i \in DOMAIN tasks : \E rmdirOk \in BOOLEAN : _destroy(i, rmdirOk)
  \/ \E c \in ContainerIds : \E type \in ImageTypes : provision(c, type)
  \/ \E i \in DOMAIN tasks : StoreGetFails(i)
  \/ \E i \in DOMAIN tasks : \E n \in 0..MaxLayers : _provision(i, n)
  \/ \E i \in DOMAIN tasks : \E ok, leaves \in BOOLEAN : BackendProvision(i, ok, leaves)
  \/ \E i \in DOMAIN tasks : \E ioOk \in BOOLEAN : __provision(i, ioOk)
  \/ \E known \in SUBSET (DOMAIN disk) : RecoverListFails(known)
  \/ \E known \in SUBSET (DOMAIN disk) : \E f \in ContainerIds :
       \E done \in SUBSET ContainerIds : RecoverScanFails(known, f, done)
  \/ \E known \in SUBSET (DOMAIN disk) :
       \E order \in Orders(Unknown(disk, known)) : recover(known, order)
  \/ \E i \in DOMAIN tasks : \E s \in ImageTypes : \E ok \in BOOLEAN : StoreRecover(i, s, ok)
  \/ \E i \in DOMAIN tasks : RecoverCollect(i)

Spec == Init /\ [][Next]_vars

\* Directory trees an agent finds at start when, in its previous run, the
\* final removal of a container directory failed: the directory of that
\* container is still there, without rootfses, with or without its backend
\* directories.
LeftoverLayouts ==
  { [c \in {"p"} |-> [b \in {"copy"} |-> {}]],
    [c \in {"p", "p.c"} |-> IF c = "p" THEN [b \in {"copy"} |-> {0}]
                                       ELSE [b \in {"copy"} |-> {}]],
    [c \in {"p", "p.c"} |-> IF c = "p" THEN EmptyInfo
                                       ELSE [b \in {"overlay"} |-> {0}]] }

\* The agent restarts on such a directory.
InitRestart ==
  /\ infos = [c \in {} |-> EmptyInfo]
  /\ disk \in LeftoverLayouts
  /\ stores \in StoreConfigs
  /\ remove_container_errors = 0
  /\ aborted = FALSE
  /\ nextRootfsId = 0
  /\ calls = 0
  /\ tasks = [i \in {} |-> [op |-> "none"]]
  /\ outcome = [op |-> "none"]
  /\ ResolverIdle

SpecRestart == InitRestart /\ [][Next]_vars

\* ------------------------------------------------------------------------
\* Properties.

\* The destroy tasks of containerId whose container was not put into infos
\* again since their handler ran.
Cleaning(T, containerId) ==
  {i \in DOMAIN T : T[i].op = "destroy" /\ T[i].containerId = containerId
                      /\ ~T[i].stale}

\* C1: of the destroy calls for one container that run with no provision
\* or recover for it in between, at most one finds it registered and starts
\* Backend.destroy; a destroy call that runs while such a cleanup is in
\* flight returns false and starts nothing.
C1_ConcurrentDestroy ==
  [][\A c \in ContainerIds :
       /\ Cardinality(Cleaning(tasks', c)) <= 1
       /\ (destroy(c) /\ Cleaning(tasks, c) # {}) =>
            /\ outcome' = DestroyOutcome(c, "caller", "false")
            /\ tasks' = tasks
            /\ disk' = disk]_vars

\* C1 witness: a destroy returned false while the cleanup another destroy
\* call started for the same container is still in flight.
C1_Witness ==
  /\ outcome.op = "destroy"
  /\ outcome.value = "false"
  /\ Cleaning(tasks, outcome.containerId) # {}

\* C2: a recover whose scan succeeds calls destroy for every on-disk
\* container that is not known and for no known one; the known ones stay
\* registered and no Backend.destroy is started for them.
C2_RecoverDestroysUnknown ==
  [][\A known \in SUBSET ContainerIds :
       \A order \in Orders(Unknown(disk, known)) :
         recover(known, order) =>
           /\ outcome'.called = Unknown(disk, known)
           /\ \A c \in known \cap DOMAIN disk :
                /\ c \in DOMAIN infos'
                /\ Cleaning(tasks', c) = {}]_vars

\* The map holds, for each listed container outside 'except', exactly the
\* listed Info when the container is known and nothing when it is not.
MapReflects(inf, known, listed, except) ==
  \A c \in (DOMAIN listed) \ except :
    IF c \in known THEN c \in DOMAIN inf /\ inf[c] = listed[c]
                   ELSE c \notin DOMAIN inf

\* recover registers no container that has no directory.
RegistersOnlyListed ==
  \A known \in SUBSET ContainerIds :
    \A order \in Orders(Unknown(disk, known)) :
      recover(known, order) =>
        \A c \in ContainerIds \ DOMAIN disk :
          c \in DOMAIN infos' => c \in DOMAIN infos

AllSucceeded(t) ==
  /\ \A c \in DOMAIN t.cleanups : t.cleanups[c] = "true"
  /\ \A s \in DOMAIN t.storeRecover : t.storeRecover[s] = "ok"
  /\ DOMAIN t.storeRecover = stores

\* Some future recover task t collects failed.
SomeFailed(t) ==
  \/ \E c \in DOMAIN t.cleanups : t.cleanups[c] = "failed"
  \/ \E s \in DOMAIN t.storeRecover : t.storeRecover[s] = "failed"

\* C4: recover completes successfully exactly when every destroy it called
\* and every Store.recover succeeded, it fails when one of them failed, and
\* its handler never reports success by itself.
C4_RecoverIsConjunction ==
  [][/\ \A i \in DOMAIN tasks :
          RecoverCollect(i) =>
            /\ outcome'.op = "recover"
            /\ outcome'.value = "ok" <=> AllSucceeded(tasks[i])
            /\ outcome'.value = "failed" <=> SomeFailed(tasks[i])
            /\ outcome'.value \in {"ok", "failed"}
     /\ \A known \in SUBSET ContainerIds :
          \A order \in Orders(Unknown(disk, known)) :
            recover(known, order) => outcome'.value \in {"pending", "aborted"}]_vars

\* C4 witness: a recover failed because a future it collected failed, while
\* a destroy it called is still cleaning up.
C4_Witness ==
  /\ outcome.op = "recover"
  /\ outcome.value = "failed"
  /\ outcome.called # {}
  /\ \E i \in DOMAIN tasks : tasks[i].op = "destroy" /\ tasks[i].by = "nobody"

\* C5: a rootfs id that a provision registered for a container stays in the
\* container's Info as long as the container is registered.
C5_ReservationStays ==
  [][\A c \in DOMAIN infos : \A b \in DOMAIN infos[c] : \A r \in infos[c][b] :
       (r > 0 /\ c \in DOMAIN infos') =>
         (b \in DOMAIN infos'[c] /\ r \in infos'[c][b])]_vars

\* Some registered entry names containerId as its parent.
HasRegisteredChild(inf, containerId) ==
  \E entry \in DOMAIN inf : has_parent(entry) /\ parent(entry) = containerId

\* What a destroy call that hits the CHECK does: the process aborts and
\* nothing is cleaned up.
AbortsWithoutCleanup(c) ==
  /\ aborted'
  /\ outcome' = DestroyOutcome(c, "caller", "aborted")
  /\ UNCHANGED <<infos, disk, tasks, remove_container_errors>>

\* C6 as stated: destroy(c) aborts without cleanup whenever a registered
\* entry names c as its parent.
C6_DestroyParentAborts ==
  [][\A c \in ContainerIds :
       (destroy(c) /\ HasRegisteredChild(infos, c)) => AbortsWithoutCleanup(c)]_vars

\* C6 amended: destroy(c) aborts without cleanup whenever c is registered
\* and a registered entry names c as its parent.
C6_DestroyRegisteredParentAborts ==
  [][\A c \in ContainerIds :
       (destroy(c) /\ c \in DOMAIN infos /\ HasRegisteredChild(infos, c)) =>
         AbortsWithoutCleanup(c)]_vars

\* C6 witness: a destroy of a registered parent aborted the process.
C6_Witness ==
  /\ aborted
  /\ outcome.op = "destroy"
  /\ outcome.value = "aborted"
  /\ outcome.containerId \in DOMAIN infos
  /\ HasRegisteredChild(infos, outcome.containerId)

\* C7: destroy of a container that is not registered returns false and
\* changes nothing: not the map, not the disk, not the calls in flight, not
\* the error counter.
C7_DestroyUnregisteredIsNoOp ==
  [][\A c \in ContainerIds :
       (destroy(c) /\ c \notin DOMAIN infos) =>
         /\ outcome' = DestroyOutcome(c, "caller", "false")
         /\ UNCHANGED <<infos, disk, tasks, remove_container_errors, aborted>>]_vars

\* C7 witness: destroy returned false for a container that is not
\* registered and that no call is cleaning up.
C7_Witness ==
  /\ outcome.op = "destroy"
  /\ outcome.value = "false"
  /\ outcome.containerId \notin DOMAIN infos
  /\ \A i \in DOMAIN tasks : tasks[i].op # "destroy"

\* A Backend.destroy that fails leaves the map alone, and the first one to
\* fail makes its destroy call fail.
FailedCleanupReported ==
  \A i \in DOMAIN tasks : \A pr \in backends \X (0..nextRootfsId) :
    BackendDestroy(i, pr, FALSE) =>
      /\ infos' = infos
      /\ tasks[i].state = "collect" =>
           outcome' = DestroyOutcome(tasks[i].containerId, tasks[i].by, "failed")

\* C8 as stated: while a destroy call cleans up a container, or after its
\* cleanup failed, the container is not registered; a failed Backend.destroy
\* makes the call fail and registers nothing.
C8_UnregisteredWhileCleaning ==
  [][/\ \A i \in DOMAIN tasks' :
          tasks'[i].op = "destroy" => tasks'[i].containerId \notin DOMAIN infos'
     /\ FailedCleanupReported]_vars

\* C8 amended: the same, unless a later provision or recover put the
\* container into the map again.
C8_UnregisteredUntilPutAgain ==
  [][/\ \A i \in DOMAIN tasks' :
          (tasks'[i].op = "destroy" /\ ~tasks'[i].stale) =>
            tasks'[i].containerId \notin DOMAIN infos'
     /\ FailedCleanupReported]_vars

\* C8 witness: a destroy call failed on a Backend.destroy, another of its
\* Backend.destroy is still running, and the container is not registered.
C8_Witness ==
  \E i \in DOMAIN tasks :
    /\ tasks[i].op = "destroy"
    /\ tasks[i].state = "failed"
    /\ ~tasks[i].stale
    /\ \E pr \in DOMAIN tasks[i].futures : tasks[i].futures[pr] = "pending"
    /\ tasks[i].containerId \notin DOMAIN infos
    /\ outcome = DestroyOutcome(tasks[i].containerId, tasks[i].by, "failed")

\* The rootfs ids whose Backend.provision is still running.
Composing(T) ==
  {T[i].rootfsId : i \in {j \in DOMAIN T : T[j].op = "provision" /\ T[j].state = "backend"}}

\* C9: _provision registers the rootfs id in the step that calls
\* Backend.provision; the completion of Backend.provision and __provision
\* leave the map alone; a failed Backend.provision fails the call; and a
\* rootfs id whose Backend.provision is over stays registered as long as
\* its container is.
C9_ReservedBeforeCompose ==
  [][/\ \A i \in DOMAIN tasks : \A n \in 0..MaxLayers :
          _provision(i, n) =>
            /\ tasks'[i].state = "backend"
            /\ tasks'[i].rootfsId \in
                 infos'[tasks[i].containerId][image_provisioner_backend]
     /\ \A i \in DOMAIN tasks : \A ok, leaves \in BOOLEAN :
          BackendProvision(i, ok, leaves) =>
            /\ infos' = infos
            /\ ~ok => (outcome'.op = "provision" /\ outcome'.value = "failed")
     /\ \A i \in DOMAIN tasks : \A ioOk \in BOOLEAN :
          __provision(i, ioOk) => infos' = infos
     /\ \A c \in DOMAIN infos : \A b \in DOMAIN infos[c] : \A r \in infos[c][b] :
          (r > 0 /\ r \notin Composing(tasks) /\ c \in DOMAIN infos') =>
            (b \in DOMAIN infos'[c] /\ r \in infos'[c][b])]_vars

\* C10: _destroy, which runs once every Backend.destroy of the call
\* succeeded, returns true whether or not the directory is removed; it adds
\* one to the error counter when the removal fails and nothing when it
\* succeeds; the counter never decreases.
C10_RmdirFailureCounted ==
  [][/\ \A i \in DOMAIN tasks : \A rmdirOk \in BOOLEAN :
          _destroy(i, rmdirOk) =>
            /\ outcome' = DestroyOutcome(tasks[i].containerId, tasks[i].by, "true")
            /\ remove_container_errors' =
                 remove_container_errors + (IF rmdirOk THEN 0 ELSE 1)
     /\ remove_container_errors' >= remove_container_errors
     /\ remove_container_errors' # remove_container_errors =>
          \E i \in DOMAIN tasks : _destroy(i, FALSE)]_vars

\* C10 witness: a destroy returned true although the removal of the
\* container directory failed and was counted.
C10_Witness ==
  /\ outcome.op = "destroy"
  /\ outcome.value = "true"
  /\ remove_container_errors > 0
  /\ outcome.containerId \in DOMAIN disk

\* A recover handler runs (whatever its arguments and the way it ends).
RecoverRuns ==
  \E known \in SUBSET ContainerIds :
    \/ RecoverListFails(known)
    \/ \E f \in ContainerIds : \E done \in SUBSET ContainerIds :
         RecoverScanFails(known, f, done)
    \/ \E order \in Orders(Unknown(disk, known)) : recover(known, order)

\* Some container on disk has a backend directory that is not configured.
UnrecognizedOnDisk ==
  \E c \in DOMAIN disk : \E b \in DOMAIN disk[c] : b \notin backends

\* C11: when some container on disk has a backend directory that is not
\* configured, every recover handler fails, whatever the known set and
\* however far the scan got, and starts no call: no destroy, no
\* Store.recover.
C11_UnrecognizedBackendFailsRecover ==
  [][(RecoverRuns /\ UnrecognizedOnDisk) =>
       /\ outcome' = RecoverFailed
       /\ DOMAIN tasks' = DOMAIN tasks
       /\ \A i \in DOMAIN tasks : tasks'[i].op = tasks[i].op
       /\ disk' = disk]_vars

\* C11 witness: recover failed on a disk with an unconfigured backend
\* directory after the scan had registered another container.
C11_Witness ==
  /\ outcome = RecoverFailed
  /\ UnrecognizedOnDisk
  /\ nextRootfsId = 0
  /\ DOMAIN infos # {}
  /\ DOMAIN tasks = {}

\* C12: provision for an image type without a Store fails at once and
\* changes nothing: the map, the disk, the calls in flight (no Store.get, no
\* Backend.provision, no resolver) and the rootfs ids minted stay as they
\* are.
C12_NoStoreFailsAtOnce ==
  [][\A c \in ContainerIds : \A type \in ImageTypes :
       (provision(c, type) /\ type \notin stores) =>
         /\ outcome' = ProvisionOutcome(c, type, "failed", "provision", 0, 0, FALSE)
         /\ UNCHANGED <<infos, disk, tasks, nextRootfsId, remove_container_errors>>]_vars

\* C12 witness: a provision was rejected for want of a Store.
C12_Witness ==
  /\ outcome.op = "provision"
  /\ outcome.stage = "provision"
  /\ outcome.value = "failed"
  /\ outcome.type \notin stores

\* C13: after a successful Backend.provision the resolver runs if and only
\* if the image is a docker image of more than one layer; in every other
\* case __provision returns the tree as it is, and so succeeds.
C13_ResolverOnlyForMultiLayerDocker ==
  [][\A i \in DOMAIN tasks : \A ioOk \in BOOLEAN :
       __provision(i, ioOk) =>
         LET needed == tasks[i].type = "DOCKER" /\ tasks[i].layers > 1
         IN  /\ outcome'.resolver <=> needed
             /\ ~needed => outcome'.value = "ok"]_vars

\* C15: a registered container leaves the map only in a destroy handler
\* for that container, called by the embedding system or by recover for a
\* container that is not known; no step of a provision removes an entry.
C15_LeavesOnlyByDestroy ==
  [][\A c \in DOMAIN infos :
       c \notin DOMAIN infos' =>
         \/ destroy(c)
         \/ \E known \in SUBSET ContainerIds :
              \E order \in Orders(Unknown(disk, known)) :
                /\ recover(known, order)
                /\ c \notin known
                /\ c \in outcome'.called]_vars

\* C15 witness: recover destroyed the unknown containers and left a known
\* one registered.
C15_Witness ==
  /\ outcome.op = "recover"
  /\ outcome.called # {}
  /\ outcome.called \cap DOMAIN infos = {}
  /\ DOMAIN infos # {}

\* C16: a destroy(c) called while a provision of c is accepted and not yet
\* complete finds c registered: it does not return false.
C16_RegisteredOnAccept ==
  [][\A c \in ContainerIds :
       (destroy(c) /\ \E i \in DOMAIN tasks :
                        tasks[i].op = "provision" /\ tasks[i].containerId = c) =>
         outcome'.value # "false"]_vars

\* C17: no destroy that recover calls for an unknown container fails the
\* CHECK on nested containers.
C17_RecoverDestroysPassCheck ==
  [][\A known \in SUBSET ContainerIds :
       \A order \in Orders(Unknown(disk, known)) :
         recover(known, order) => (~aborted' /\ outcome'.value # "aborted")]_vars

\* The (backend, rootfsId) pairs recorded in an Info.
RecordedPairs(info) ==
  UNION {{<<b, r>> : r \in info[b]} : b \in DOMAIN info}

\* The destroy handler for c, whose Info was info, started one
\* Backend.destroy for each recorded pair and for nothing else.
StartedOncePerPair(c, info) ==
  \E i \in (DOMAIN tasks') \ (DOMAIN tasks) :
    /\ tasks'[i].op = "destroy"
    /\ tasks'[i].containerId = c
    /\ tasks'[i].state = "collect"
    /\ tasks'[i].futures = [pr \in RecordedPairs(info) |-> "pending"]

\* C18: destroy of a registered container starts Backend.destroy once for
\* each (backend, rootfsId) pair of its Info and for no other pair; each of
\* them completes once; the container directory is removed only by _destroy,
\* which runs only when all of them succeeded; when one fails the call fails
\* and never reaches _destroy.
C18_BackendDestroyOncePerPair ==
  [][/\ \A c \in ContainerIds :
          (destroy(c) /\ c \in DOMAIN infos /\ ~aborted') =>
            StartedOncePerPair(c, infos[c])
     /\ \A known \in SUBSET ContainerIds :
          \A order \in Orders(Unknown(disk, known)) :
            (recover(known, order) /\ ~aborted') =>
              \A c \in Unknown(disk, known) : StartedOncePerPair(c, disk[c])
     /\ \A i \in DOMAIN tasks : \A pr \in backends \X (0..nextRootfsId) :
          \A ok \in BOOLEAN :
            BackendDestroy(i, pr, ok) =>
              /\ tasks[i].futures[pr] = "pending"
              /\ i \in DOMAIN tasks' =>
                   /\ DOMAIN tasks'[i].futures = DOMAIN tasks[i].futures
                   /\ tasks'[i].futures[pr] # "pending"
                   /\ ~ok => tasks'[i].state = "failed"
     /\ \A i \in DOMAIN tasks : \A rmdirOk \in BOOLEAN :
          _destroy(i, rmdirOk) =>
            /\ tasks[i].state = "collect"
            /\ \A pr \in DOMAIN tasks[i].futures : tasks[i].futures[pr] = "ok"
     /\ \A c \in DOMAIN disk :
          c \notin DOMAIN disk' =>
            \E i \in DOMAIN tasks : _destroy(i, TRUE) /\ tasks[i].containerId = c
     /\ \A i \in DOMAIN tasks :
          (tasks[i].op = "destroy" /\ tasks[i].state = "failed" /\ i \in DOMAIN tasks') =>
            tasks'[i].state = "failed"]_vars

\* C18 witness: a destroy call started two Backend.destroy, one of which
\* has succeeded while the other is still running.
C18_Witness ==
  \E i \in DOMAIN tasks :
    /\ tasks[i].op = "destroy"
    /\ tasks[i].state = "collect"
    /\ \E pr, qr \in DOMAIN tasks[i].futures :
         tasks[i].futures[pr] = "ok" /\ tasks[i].futures[qr] = "pending"
    /\ tasks[i].containerId \in DOMAIN disk

\* C20: every backend name that is a key of a registered Info is a
\* configured backend, and no destroy call took the 'Unknown backend' exit:
\* a destroy call fails only when one of its Backend.destroy failed.
C20_BackendKeysConfigured ==
  /\ \A c \in DOMAIN infos : (DOMAIN infos[c]) \subseteq backends
  /\ \A i \in DOMAIN tasks :
       tasks[i].op = "destroy" =>
         /\ \A pr \in DOMAIN tasks[i].futures : pr[1] \in backends
         /\ tasks[i].state = "failed" =>
              \E pr \in DOMAIN tasks[i].futures : tasks[i].futures[pr] = "failed"

\* C20 witness: an Info filled by a recover scan and by a provision.
C20_Witness ==
  \E c \in DOMAIN infos :
    /\ DOMAIN infos[c] = backends
    /\ \E r \in infos[c][image_provisioner_backend] : r > 0
    /\ 0 \in infos[c][image_provisioner_backend]

\* The container directories on disk that hold no rootfs.
Leftover(d) == {c \in DOMAIN d : \A b \in DOMAIN d[c] : d[c][b] = {}}

\* C19: a recover whose scan succeeds finds every leftover container
\* directory: a known one is registered as found; for one that is not known
\* destroy is called again, and that call, having no rootfs to clean up,
\* goes on to remove the directory.
C19_LeftoverRetried ==
  [][\A known \in SUBSET ContainerIds :
       \A order \in Orders(Unknown(disk, known)) :
         recover(known, order) =>
           \A c \in Leftover(disk) :
             IF c \in known
               THEN c \in DOMAIN infos' /\ infos'[c] = disk[c]
               ELSE /\ c \in outcome'.called
                    /\ \E i \in (DOMAIN tasks') \ (DOMAIN tasks) :
                         /\ tasks'[i].op = "destroy"
                         /\ tasks'[i].containerId = c
                         /\ tasks'[i].state = "collect"
                         /\ DOMAIN tasks'[i].futures = {}]_vars

\* The whiteout files of a tree.
Markers(tree) ==
  {path \in (DOMAIN tree) \ {<<>>} :
     tree[path] = "file" /\ basename(path)[1] = ".wh."}

\* The directories of a tree that hold an opaque whiteout file.
OpaqueDirs(tree) ==
  {dirname(path) : path \in {q \in Markers(tree) :
                               basename(q) = <<".wh.", ".wh.", ".opq">>}}

\* The paths the other whiteout files of a tree hide.
Hidden(tree) ==
  {Append(dirname(path), Tail(basename(path))) :
     path \in {q \in Markers(tree) : basename(q) # <<".wh.", ".wh.", ".opq">>}}

\* path is one of the paths of S or lies below one.
AtOrBelow(path, S) == \E t \in S : path = t \/ Below(path, t)

\* No whiteout file is left and every hidden path is gone.
MarkersResolved ==
  /\ Markers(rootfs) = {}
  /\ Hidden(composed) \cap DOMAIN rootfs = {}

\* The entries that are not whiteout files, are neither hidden nor below a
\* hidden path, and are not below a directory with an opaque whiteout, are
\* as they were, and nothing was added.
OthersUnchanged ==
  /\ (DOMAIN rootfs) \subseteq DOMAIN composed
  /\ \A path \in DOMAIN composed :
       (/\ path \notin Markers(composed)
        /\ ~AtOrBelow(path, Hidden(composed))
        /\ \A d \in OpaqueDirs(composed) : ~Below(path, d)) =>
         (path \in DOMAIN rootfs /\ rootfs[path] = composed[path])

\* C14 as stated: when no fts, rm or rmdir call fails on its own, the
\* whiteout handling succeeds, no whiteout file is left, every hidden path
\* is gone, every directory that held an opaque whiteout exists and is
\* empty, and the other entries are unchanged.
C14_ResolverPostconditions ==
  /\ pc # "missing"
  /\ pc = "ok" =>
       /\ MarkersResolved
       /\ \A d \in OpaqueDirs(composed) :
            d \in DOMAIN rootfs /\ Children(rootfs, d) = {}
       /\ OthersUnchanged

\* The directory is hidden, lies below a hidden path or lies below another
\* directory with an opaque whiteout.
Doomed(d) ==
  \/ AtOrBelow(d, Hidden(composed))
  \/ \E outer \in OpaqueDirs(composed) : Below(d, outer)

\* C14 amended: the whiteout handling can fail without an I/O error only
\* at a directory with an opaque whiteout that lies below another one (the
\* outer one was emptied first); when it succeeds, no whiteout file is
\* left, every hidden path is gone, a directory that held an opaque
\* whiteout is gone if it is hidden or lies below a hidden path or below
\* another such directory and otherwise exists and is empty, and the other
\* entries are unchanged.
C14_ResolverPostconditionsSurvivors ==
  /\ pc = "missing" =>
       \E outer, inner \in OpaqueDirs(composed) : Below(inner, outer)
  /\ pc = "ok" =>
       /\ MarkersResolved
       /\ \A d \in OpaqueDirs(composed) :
            IF Doomed(d) THEN d \notin DOMAIN rootfs
            ELSE d \in DOMAIN rootfs /\ Children(rootfs, d) = {}
       /\ OthersUnchanged

\* C14 witness: the handling succeeded on a tree with an opaque whiteout
\* in a directory and in a directory below it, and with a whiteout file
\* for a file that was there.
C14_Witness ==
  /\ pc = "ok"
  /\ \E outer, inner \in OpaqueDirs(composed) : Below(inner, outer)
  /\ \E path \in Hidden(composed) : path \in DOMAIN composed /\ composed[path] = "file"

====
